---- MODULE Spec2Model ----
(***************************************************************************)
(* Model of the acordao extraction pipeline (src/extract_data.py).         *)
(*                                                                         *)
(* Texts are TLA+ strings and every extractor works on their characters,   *)
(* as the Python code does: a regular expression of the source is an       *)
(* operator that scans the string position by position with the same       *)
(* leftmost / greedy / lazy choice re.search makes.  None is the Python    *)
(* None.                                                                   *)
(***************************************************************************)
EXTENDS Integers, Sequences, FiniteSets, TLC

VARIABLES pc, text, txt, block, dispositivo, partes, banco_name, ret

vars == <<pc, text, txt, block, dispositivo, partes, banco_name, ret>>

None == "<None>"

(***************************************************************************)
(* Characters and strings                                                  *)
(***************************************************************************)
At(s, i) == SubSeq(s, i, i)

Chars(s) == {At(s, i) : i \in 1..Len(s)}

Min(S) == CHOOSE x \in S : \A y \in S : x <= y

Max(S) == CHOOSE x \in S : \A y \in S : x >= y

\* F(v) with v bound to its value: an assignment to a local, x = v, followed
\* by the code F that reads x.
With(v, F(_)) == CHOOSE r \in {F(x) : x \in {v}} : TRUE

SortedSeq(S) ==
    [k \in 1..Cardinality(S) |-> CHOOSE x \in S : Cardinality({y \in S : y < x}) = k - 1]

\* s[a:b] of Python with 0 <= a, written with 1-based inclusive bounds: the
\* bounds are clipped to the string.
Slice(s, from, to) ==
    LET a == IF from < 1 THEN 1 ELSE from
        b == IF to > Len(s) THEN Len(s) ELSE to
    IN  IF a > b THEN "" ELSE SubSeq(s, a, b)

ASCII_UPPER == "ABCDEFGHIJKLMNOPQRSTUVWXYZ"
ASCII_LOWER == "abcdefghijklmnopqrstuvwxyz"
ACCENT_UPPER == "ÀÁÂÃÇÉÊÍÓÔÕÚÝ"
ACCENT_LOWER == "àáâãçéêíóôõúý"
ACCENT_UPPER_BASE == "AAAACEEIOOOUY"
ACCENT_LOWER_BASE == "aaaaceeiooouy"
DIGITS == "0123456789"

\* str.isspace / \s of the re module: the whitespace characters of the model's texts.
Whitespace == {" ", "\t", "\n"}

\* The characters str.splitlines breaks a line at.
LineBreaks == {"\n"}

DigitSet == Chars(DIGITS)
UpperSet == Chars(ASCII_UPPER) \cup Chars(ACCENT_UPPER)
LowerSet == Chars(ASCII_LOWER) \cup Chars(ACCENT_LOWER)

IsDigit(c) == c \in DigitSet

IsSpace(c) == c \in Whitespace

\* \w of the re module (str patterns are Unicode-aware: accented letters and
\* the ordinal sign are word characters).
WordSet == UpperSet \cup LowerSet \cup DigitSet \cup {"_", "º"}

IsWord(c) == c \in WordSet

\* The character table that sends the i-th character of from to the i-th of to.
Table(from, to) ==
    [c \in Chars(from) |-> At(to, CHOOSE i \in 1..Len(from) : At(from, i) = c)]

UpperTable == Table(ASCII_LOWER \o ACCENT_LOWER, ASCII_UPPER \o ACCENT_UPPER)
LowerTable == Table(ASCII_UPPER \o ACCENT_UPPER, ASCII_LOWER \o ACCENT_LOWER)
AccentTable == Table(ACCENT_UPPER \o ACCENT_LOWER, ACCENT_UPPER_BASE \o ACCENT_LOWER_BASE)

\* str.upper() and str.lower() on one character.
UpperChar(c) == IF c \in DOMAIN UpperTable THEN UpperTable[c] ELSE c

LowerChar(c) == IF c \in DOMAIN LowerTable THEN LowerTable[c] ELSE c

\* unicodedata.normalize('NFD', c) with the combining marks (category Mn) dropped.
StripAccent(c) == IF c \in DOMAIN AccentTable THEN AccentTable[c] ELSE c

\* The concatenation of F(i) for i = lo..hi.
RECURSIVE Cat(_, _, _)
Cat(F(_), lo, hi) ==
    IF lo > hi THEN ""
    ELSE IF lo = hi THEN F(lo)
    ELSE With((lo + hi) \div 2, LAMBDA mid :
             Cat(F, lo, mid) \o With(mid + 1, LAMBDA next : Cat(F, next, hi)))

Upper(s) == With(s, LAMBDA t : Cat(LAMBDA i : UpperChar(At(t, i)), 1, Len(t)))

Lower(s) == With(s, LAMBDA t : Cat(LAMBDA i : LowerChar(At(t, i)), 1, Len(t)))

\* str.strip()
Strip(s) ==
    With(s, LAMBDA t :
    With({i \in 1..Len(t) : At(t, i) \notin Whitespace}, LAMBDA keep :
        IF keep = {} THEN "" ELSE SubSeq(t, Min(keep), Max(keep))))

\* str.lstrip()
LStrip(s) ==
    With(s, LAMBDA t :
    With({i \in 1..Len(t) : At(t, i) \notin Whitespace}, LAMBDA keep :
        IF keep = {} THEN "" ELSE SubSeq(t, Min(keep), Len(t))))

\* re.sub(r'\s+', ' ', s): every maximal run of whitespace becomes one space.
CollapseSpaces(s) ==
    With(s, LAMBDA t :
        LET F(i) == IF At(t, i) \notin Whitespace THEN At(t, i)
                    ELSE IF i = 1 \/ At(t, i - 1) \notin Whitespace THEN " "
                    ELSE ""
        IN  Cat(F, 1, Len(t)))

\* The pieces of s between the characters of seps, as str.split(sep) and
\* str.splitlines cut them: the i-th piece runs from one cut to the next.
Pieces(s, seps) ==
    With(s, LAMBDA t :
    With(SortedSeq({0} \cup {i \in 1..Len(t) : At(t, i) \in seps} \cup {Len(t) + 1}), LAMBDA edges :
        [k \in 1..(Len(edges) - 1) |-> Slice(t, edges[k] + 1, edges[k + 1] - 1)]))

\* str.splitlines(): no last empty line after a final line break, and no line
\* at all for the empty string.
SplitLines(s) ==
    With(Pieces(s, LineBreaks), LAMBDA p :
        IF p[Len(p)] = "" THEN SubSeq(p, 1, Len(p) - 1) ELSE p)

\* str.split(): the maximal runs of non-whitespace.
Split(s) == SelectSeq(Pieces(s, Whitespace), LAMBDA w : w /= "")

\* sep.join(seq)
Join(seq, sep) ==
    With(seq, LAMBDA q :
        Cat(LAMBDA i : IF i = 1 THEN q[i] ELSE sep \o q[i], 1, Len(q)))

\* The first position >= from at which p occurs in s, or 0 (str.find, 1-based).
Find(p, s, from) ==
    With(s, LAMBDA t :
    With({i \in from..(Len(t) - Len(p) + 1) : SubSeq(t, i, i + Len(p) - 1) = p}, LAMBDA at :
        IF at = {} THEN 0 ELSE Min(at)))

\* p in s
Contains(p, s) == Find(p, s, 1) /= 0

\* p matches at position i of s under re.IGNORECASE (p is written in capitals).
MatchCI(p, s, i) ==
    /\ i + Len(p) - 1 <= Len(s)
    /\ UpperChar(At(s, i)) = At(p, 1)
    /\ Upper(SubSeq(s, i, i + Len(p) - 1)) = p

\* re.search of the literal p under re.IGNORECASE: first position >= from, or 0.
FindCI(p, s, from) ==
    With({i \in from..(Len(s) - Len(p) + 1) : MatchCI(p, s, i)}, LAMBDA at :
        IF at = {} THEN 0 ELSE Min(at))

\* The number of characters from position i on that satisfy In, up to max.
RunLen(s, i, In(_), max) ==
    With(Min({max, Len(s) - i + 1}), LAMBDA most :
        IF most <= 0 THEN 0
        ELSE Min({k \in 0..most : k = most \/ ~In(At(s, i + k))}))

\* \s* from position p on: the position after it.
SkipSpaces(s, p) == p + RunLen(s, p, IsSpace, Len(s))

\* \b of the re module at the gap before position i (1..Len(s)+1).
WordBoundary(s, i) ==
    LET before == i > 1 /\ IsWord(At(s, i - 1))
        after == i <= Len(s) /\ IsWord(At(s, i))
    IN  before /= after

(***************************************************************************)
(* Utilitarios                                                             *)
(***************************************************************************)
normalize_text(s) ==
    With(s, LAMBDA t :
        IF t = None \/ t = "" THEN t
        ELSE Strip(CollapseSpaces(Cat(LAMBDA i : StripAccent(At(t, i)), 1, Len(t)))))

normalize_upper(s) ==
    With(s, LAMBDA t : IF t = None \/ t = "" THEN t ELSE Upper(normalize_text(t)))

(***************************************************************************)
(* Configuracoes / listas                                                  *)
(***************************************************************************)
COMMON_BANKS ==
    << "ITAÚ UNIBANCO", "ITAU UNIBANCO", "ITAU", "BANCO DO BRASIL", "BRADESCO",
       "SANTANDER", "CAIXA ECONOMICA FEDERAL", "CAIXA ECONOMICA", "CAIXA",
       "BANCO SAFRA", "BANCO MERCANTIL", "BANCO RURAL", "BANCO PAN", "BANCO INTER" >>

ROLE_LABELS ==
    << "AGRAVANTE", "AGRAVADO", "RECORRENTE", "RECORRIDO",
       "EMBARGANTE", "EMBARGADO", "AUTOR", "REU", "RÉU", "INTERESSADO" >>

\* OUTCOME_PATTERNS, in the order of the dictionary.  Each regular expression
\* is the finite set of the strings it matches:
\*   NEGA[MR]? PROVIMENTO, NEGAR PROVIMENTO, NEGA-SE PROVIMENTO
\*   DAR PROVIMENTO, DE[AU] PROVIMENTO, PROVIDO, ACOLHE( O| O?A)? RECURSO
\*   JULGAR(IM)?PROCEDENTE, IMPROCEDENTE
\*   JULGAR PROCEDENTE, PROCEDENTE
\*   PREJUDICAD
\*   EXTINTO, EXTINGUIR
OUTCOME_PATTERNS ==
    << [key |-> "negar_provimento",
        pats |-> << {"NEGA PROVIMENTO", "NEGAM PROVIMENTO", "NEGAR PROVIMENTO"},
                    {"NEGAR PROVIMENTO"}, {"NEGA-SE PROVIMENTO"} >>],
       [key |-> "dar_provimento",
        pats |-> << {"DAR PROVIMENTO"}, {"DEA PROVIMENTO", "DEU PROVIMENTO"}, {"PROVIDO"},
                    {"ACOLHE RECURSO", "ACOLHE O RECURSO", "ACOLHE OA RECURSO", "ACOLHE A RECURSO"} >>],
       [key |-> "julgar_improcedente",
        pats |-> << {"JULGARPROCEDENTE", "JULGARIMPROCEDENTE"}, {"IMPROCEDENTE"} >>],
       [key |-> "julgar_procedente",
        pats |-> << {"JULGAR PROCEDENTE"}, {"PROCEDENTE"} >>],
       [key |-> "prejudicado", pats |-> << {"PREJUDICAD"} >>],
       [key |-> "extinto", pats |-> << {"EXTINTO"}, {"EXTINGUIR"} >>] >>

(***************************************************************************)
(* Extracao de blocos e partes                                             *)
(***************************************************************************)
\* txt[:1500]
BlockLimit == 1500

\* re.search(r'(RELAT[ÓO]RIO|RELATORIO)', txt, re.IGNORECASE): start of the
\* first match, or 0.  Both spellings have 9 characters.
SearchRelatorio(s) ==
    With({i \in 1..(Len(s) - 8) : MatchCI("RELATÓRIO", s, i) \/ MatchCI("RELATORIO", s, i)}, LAMBDA at :
        IF at = {} THEN 0 ELSE Min(at))

\* One alternative \bWORDS\b of the VOTO pattern at position i.
MatchWordCI(p, s, i) ==
    WordBoundary(s, i) /\ MatchCI(p, s, i) /\ WordBoundary(s, i + Len(p))

\* re.search(r'\bVOTO\b|\bVOTO DO RELATOR\b|\bVOTOS\b', txt, re.IGNORECASE):
\* start of the first match, or 0.
SearchVoto(s) ==
    With({i \in 1..(Len(s) - 3) :
            \/ MatchWordCI("VOTO", s, i)
            \/ MatchWordCI("VOTO DO RELATOR", s, i)
            \/ MatchWordCI("VOTOS", s, i)}, LAMBDA at :
        IF at = {} THEN 0 ELSE Min(at))

\* extract_partes_block with the second test as `if m_voto and not m_rel`.
extract_partes_block_only_voto(s) ==
    With(SearchRelatorio(s), LAMBDA m_rel :
    With(SearchVoto(s), LAMBDA m_voto :
        IF m_rel /= 0 /\ m_voto /= 0 /\ m_rel < m_voto
          THEN Slice(s, m_rel + 9, m_voto - 1)
        ELSE IF m_voto /= 0 /\ m_rel = 0
          THEN Slice(s, 1, m_voto - 1)
        ELSE Slice(s, 1, IF Len(s) < BlockLimit THEN Len(s) ELSE BlockLimit)))

extract_partes_block(s) ==
    With(SearchRelatorio(s), LAMBDA m_rel :
    With(SearchVoto(s), LAMBDA m_voto :
        IF m_rel /= 0 /\ m_voto /= 0 /\ m_rel < m_voto
          THEN Slice(s, m_rel + 9, m_voto - 1)
        ELSE IF m_voto /= 0
          THEN Slice(s, 1, m_voto - 1)
        ELSE Slice(s, 1, IF Len(s) < BlockLimit THEN Len(s) ELSE BlockLimit)))

\* [A-ZÀ-Ý0-9\s]
IsLabelChar(c) == c \in UpperSet \/ IsDigit(c) \/ IsSpace(c)

\* [:\-–]; the en dash U+2013 is not a character a TLA+ string can hold, so
\* the texts of the model separate with ":" or "-".
IsSeparator(c) == c \in {":", "-"}

LabelMin == 3
LabelMax == 50

\* The lengths g the group ([A-ZÀ-Ý0-9\s]{3,50}) can take at the start of
\* line so that \s*[:\-–] follows it; rest says whether \s*(.+)$ must follow too.
LabelLengths(line, rest) ==
    {g \in LabelMin..RunLen(line, 1, IsLabelChar, LabelMax) :
        With(SkipSpaces(line, g + 1), LAMBDA sep :
            /\ sep <= Len(line)
            /\ IsSeparator(At(line, sep))
            /\ rest => sep < Len(line))}

\* re.match(r'^([A-ZÀ-Ý0-9\s]{3,50})\s*[:\-–]\s*(.+)$', line): the groups of
\* the match (the greedy group 1 is the longest that lets the rest match).
MatchLabelLine(line) ==
    With(line, LAMBDA l :
    With(LabelLengths(l, TRUE), LAMBDA lens :
        IF lens = {} THEN [ok |-> FALSE, label |-> "", name |-> ""]
        ELSE With(Max(lens), LAMBDA g :
                 [ok |-> TRUE,
                  label |-> SubSeq(l, 1, g),
                  name |-> LStrip(SubSeq(l, SkipSpaces(l, g + 1) + 1, Len(l)))])))

\* re.match(r'^[A-ZÀ-Ý0-9\s]{3,50}\s*[:\-–]', line)
LooksLikeLabel(line) == With(line, LAMBDA l : LabelLengths(l, FALSE) /= {})

\* for r in ROLE_LABELS: if r in label_upper: matched_role = r; break
MatchedRole(label_upper) ==
    With(label_upper, LAMBDA label :
    With({k \in 1..Len(ROLE_LABELS) : Contains(ROLE_LABELS[k], label)}, LAMBDA hits :
        IF hits = {} THEN None ELSE ROLE_LABELS[Min(hits)]))

\* ContinuationEnd with no line absorbed: every entry ends on its own line.
ContinuationEnd_one_line(lines, j) == j

\* The while loop over the continuation lines: the index of the first line
\* from j on that is blank or looks like a label, or Len(lines) + 1.
ContinuationEnd(lines, j) ==
    Min({k \in j..(Len(lines) + 1) :
            \/ k > Len(lines)
            \/ Strip(lines[k]) = ""
            \/ LooksLikeLabel(Strip(lines[k]))})

\* partes.setdefault(role, []).append(name)
Append1(acc, role, name) ==
    IF role \in DOMAIN acc THEN [acc EXCEPT ![role] = Append(@, name)]
    ELSE acc @@ (role :> <<name>>)

\* The scan of the lines from index i on; acc is the dictionary partes.
RECURSIVE ScanLines(_, _, _)
ScanLines(lines, i, acc) ==
    IF i > Len(lines) THEN acc
    ELSE With(MatchLabelLine(Strip(lines[i])), LAMBDA m :
         With(IF m.ok THEN MatchedRole(normalize_upper(Strip(m.label))) ELSE None, LAMBDA matched_role :
             IF matched_role /= None
               THEN With(ContinuationEnd(lines, i + 1), LAMBDA j :
                    With(Strip(m.name) \o Cat(LAMBDA k : " " \o Strip(lines[k]), i + 1, j - 1), LAMBDA name :
                    With(normalize_text(name), LAMBDA clean_name :
                    With(IF clean_name /= "" THEN Append1(acc, matched_role, clean_name) ELSE acc,
                         LAMBDA partes_ : ScanLines(lines, j, partes_)))))
             ELSE With(i + 1, LAMBDA next : ScanLines(lines, next, acc))))

\* Unique with every name kept, repeated or not.
Unique_keeps_repetitions(names, seen) ==
    [k \in 1..Len(names) |-> Join(Split(names[k]), " ")]

\* The names of a role without repetitions, first occurrence first:
\* n_norm = ' '.join(n.split()), kept when not yet seen.
RECURSIVE Unique(_, _)
Unique(names, seen) ==
    IF names = <<>> THEN <<>>
    ELSE With(Join(Split(Head(names)), " "), LAMBDA n_norm :
         With(Tail(names), LAMBDA rest :
             IF n_norm \in seen THEN Unique(rest, seen)
             ELSE With(seen \cup {n_norm}, LAMBDA seen_ : <<n_norm>> \o Unique(rest, seen_))))

\* partes_flat[role] = '; '.join(unique) if unique else None
Flatten(names) ==
    With(Unique(names, {}), LAMBDA unique :
        IF unique /= <<>> THEN Join(unique, "; ") ELSE None)

extract_partes_from_block(b) ==
    With(SplitLines(b), LAMBDA lines :
    With(ScanLines(lines, 1, <<>>), LAMBDA partes_lists :
        [role \in DOMAIN partes_lists |-> Flatten(partes_lists[role])]))

(***************************************************************************)
(* Processo, tipo, data, estado                                            *)
(***************************************************************************)
\* [0-9\.\-/] and [0-9./-]
IsProcChar(c) == IsDigit(c) \/ c \in {".", "-", "/"}

IsAsciiLetter(c) == c \in Chars(ASCII_UPPER) \cup Chars(ASCII_LOWER)

IsAsciiUpper(c) == c \in Chars(ASCII_UPPER)

\* \s*(?:-\s*([A-Z]{2})) under re.IGNORECASE at position q: the state code
\* and the position after the match.
UFAt(s, q) ==
    With(SkipSpaces(s, q), LAMBDA dash :
    With(SkipSpaces(s, dash + 1), LAMBDA uf :
        [ok |-> /\ dash <= Len(s) /\ At(s, dash) = "-"
                /\ RunLen(s, uf, IsAsciiLetter, 2) = 2,
         uf |-> Slice(s, uf, uf + 1),
         end |-> uf + 2]))

\* The end of a match whose optional last group \s*(?:-\s*([A-Z]{2}))? starts
\* at q: the group when it matches, the greedy \s* alone when it does not.
OptUFAt(s, q) ==
    With(UFAt(s, q), LAMBDA m :
        IF m.ok THEN m ELSE [ok |-> FALSE, uf |-> "", end |-> SkipSpaces(s, q)])

\* N(?:º|°|o) or N(?:º|o) under re.IGNORECASE at position i.
NumeroAt(s, i, marks) ==
    i + 1 <= Len(s) /\ UpperChar(At(s, i)) = "N" /\ UpperChar(At(s, i + 1)) \in marks

NoMatch == [ok |-> FALSE, proc |-> "", uf |-> "", end |-> 0]

MinProcDigits == 4

\* \bN(?:º|°|o)\s*[:.]?\s*([0-9]{4,}[0-9\.\-/]*)\s*(?:-\s*([A-Z]{2})) at i.
\* The greedy number gives characters back until the state code follows it.
Pattern1At(s, i) ==
    IF ~(WordBoundary(s, i) /\ NumeroAt(s, i, {"º", "°", "O"})) THEN NoMatch
    ELSE With(SkipSpaces(s, i + 2), LAMBDA a :
         With(SkipSpaces(s, IF a <= Len(s) /\ At(s, a) \in {":", "."} THEN a + 1 ELSE a), LAMBDA b :
         With({e \in MinProcDigits..RunLen(s, b, IsProcChar, Len(s)) : UFAt(s, b + e).ok}, LAMBDA lens :
             IF RunLen(s, b, IsDigit, MinProcDigits) = MinProcDigits /\ lens /= {}
               THEN With(Max(lens), LAMBDA e :
                    With(UFAt(s, b + e), LAMBDA m :
                        [ok |-> TRUE, proc |-> SubSeq(s, b, b + e - 1), uf |-> m.uf, end |-> m.end]))
             ELSE NoMatch)))

\* WORD\s*(?:N(?:º|o)\.?)\s* at i: the position after it, or 0.
HeadNumeroAt(word, s, i) ==
    IF ~(WordBoundary(s, i) /\ MatchCI(word, s, i)) THEN 0
    ELSE With(SkipSpaces(s, i + Len(word)), LAMBDA n :
             IF ~NumeroAt(s, n, {"º", "O"}) THEN 0
             ELSE SkipSpaces(s, IF n + 2 <= Len(s) /\ At(s, n + 2) = "." THEN n + 3 ELSE n + 2))

\* \bPROCESSO\s*(?:N(?:º|o)\.?)\s*([0-9./-]+)\s*(?:-\s*([A-Z]{2}))? at i.
Pattern2At(s, i) ==
    With(HeadNumeroAt("PROCESSO", s, i), LAMBDA b :
    With(IF b = 0 THEN 0 ELSE RunLen(s, b, IsProcChar, Len(s)), LAMBDA e :
        IF e >= 1
          THEN With(OptUFAt(s, b + e), LAMBDA m :
                   [ok |-> TRUE, proc |-> SubSeq(s, b, b + e - 1), uf |-> m.uf, end |-> m.end])
        ELSE NoMatch))

\* \bRECURSO ESPECIAL\s*(?:N(?:º|o)\.?)\s*([0-9]+)\s*(?:-\s*([A-Z]{2})) at i.
Pattern3At(s, i) ==
    With(HeadNumeroAt("RECURSO ESPECIAL", s, i), LAMBDA b :
    With(IF b = 0 THEN 0 ELSE RunLen(s, b, IsDigit, Len(s)), LAMBDA e :
        IF e >= 1
          THEN With(UFAt(s, b + e), LAMBDA m :
                   IF m.ok
                     THEN [ok |-> TRUE, proc |-> SubSeq(s, b, b + e - 1), uf |-> m.uf, end |-> m.end]
                   ELSE NoMatch)
        ELSE NoMatch))

\* \bREsp\.?\s*([0-9./-]+)\b at i: the greedy number gives characters back
\* until a word boundary follows it.
Pattern4At(s, i) ==
    IF ~(WordBoundary(s, i) /\ MatchCI("RESP", s, i)) THEN NoMatch
    ELSE With(SkipSpaces(s, IF i + 4 <= Len(s) /\ At(s, i + 4) = "." THEN i + 5 ELSE i + 4), LAMBDA b :
         With({e \in 1..RunLen(s, b, IsProcChar, Len(s)) : WordBoundary(s, b + e)}, LAMBDA lens :
             IF lens = {} THEN NoMatch
             ELSE With(Max(lens), LAMBDA e :
                      [ok |-> TRUE, proc |-> SubSeq(s, b, b + e - 1), uf |-> "", end |-> b + e])))

\* \bProcesso:\s*([0-9./-]+)\s*(?:-\s*([A-Z]{2}))? at i.
Pattern5At(s, i) ==
    IF ~(WordBoundary(s, i) /\ MatchCI("PROCESSO:", s, i)) THEN NoMatch
    ELSE With(SkipSpaces(s, i + 9), LAMBDA b :
         With(RunLen(s, b, IsProcChar, Len(s)), LAMBDA e :
             IF e >= 1
               THEN With(OptUFAt(s, b + e), LAMBDA m :
                        [ok |-> TRUE, proc |-> SubSeq(s, b, b + e - 1), uf |-> m.uf, end |-> m.end])
             ELSE NoMatch))

\* The five patterns of extract_processo_and_estado, in the order of the list.
PatternAt(k, s, i) ==
    CASE k = 1 -> Pattern1At(s, i)
      [] k = 2 -> Pattern2At(s, i)
      [] k = 3 -> Pattern3At(s, i)
      [] k = 4 -> Pattern4At(s, i)
      [] k = 5 -> Pattern5At(s, i)

\* re.search(patterns[k], txt, re.IGNORECASE): the leftmost match.
SearchPattern(k, s) ==
    With({i \in 1..Len(s) : UpperChar(At(s, i)) \in {"N", "P", "R"} /\ PatternAt(k, s, i).ok}, LAMBDA at :
        IF at = {} THEN NoMatch ELSE With(Min(at), LAMBDA i : PatternAt(k, s, i)))

TailLen == 40

\* tail = txt[m.end(): m.end()+40]; re.search(r'-\s*([A-Z]{2})', tail)
TailEstado(s, end) ==
    With(Slice(s, end, end + TailLen - 1), LAMBDA tail :
    With({d \in 1..Len(tail) :
            At(tail, d) = "-" /\ RunLen(tail, SkipSpaces(tail, d + 1), IsAsciiUpper, 2) = 2}, LAMBDA at :
        IF at = {} THEN None
        ELSE With(SkipSpaces(tail, Min(at) + 1), LAMBDA c : SubSeq(tail, c, c + 1))))

\* (proc, estado) of the first pattern that matches, or (None, None).
extract_processo_and_estado(s) ==
    With({k \in 1..5 : SearchPattern(k, s).ok}, LAMBDA hits :
        IF hits = {} THEN <<None, None>>
        ELSE With(SearchPattern(Min(hits), s), LAMBDA m :
                 << Strip(m.proc),
                    IF m.uf /= "" /\ RunLen(m.uf, 1, IsAsciiUpper, 2) = 2 THEN Upper(m.uf)
                    ELSE TailEstado(s, m.end) >>))

tipos ==
    << "AGRAVO EM RECURSO ESPECIAL", "RECURSO ESPECIAL", "AGRAVO INTERNO",
       "AGRAVO DE INSTRUMENTO", "EMBARGOS DE DECLARAÇÃO" >>

\* re.match(r'^(.*?)\s+N(?:º|o|°)\b', first_line, re.IGNORECASE): group 1 of
\* the match with the shortest lazy group, or None.
FirstLineTipo(first_line) ==
    With(first_line, LAMBDA line :
        LET Num(k) == SkipSpaces(line, k + 1)
        IN  With({k \in 0..Len(line) :
                    /\ Num(k) > k + 1
                    /\ NumeroAt(line, Num(k), {"º", "O", "°"})
                    /\ WordBoundary(line, Num(k) + 2)}, LAMBDA at :
                IF at = {} THEN None ELSE Strip(Slice(line, 1, Min(at)))))

extract_tipo_processo(s) ==
    With({k \in 1..Len(tipos) : \E i \in 1..Len(s) : MatchWordCI(tipos[k], s, i)}, LAMBDA hits :
        IF hits /= {} THEN tipos[Min(hits)]
        ELSE With(SplitLines(s), LAMBDA lines :
                 FirstLineTipo(IF lines /= <<>> THEN lines[1] ELSE "")))

\* int(s) of a string of decimal digits.
RECURSIVE ToInt(_)
ToInt(s) ==
    IF s = "" THEN 0
    ELSE 10 * ToInt(SubSeq(s, 1, Len(s) - 1))
         + (CHOOSE d \in 0..9 : At(DIGITS, d + 1) = At(s, Len(s)))

\* str(n) of a natural number.
RECURSIVE ToStr(_)
ToStr(n) == IF n < 10 THEN At(DIGITS, n + 1) ELSE ToStr(n \div 10) \o At(DIGITS, (n % 10) + 1)

\* The dictionary meses; 0 stands for a name that is not a key (meses.get -> None).
meses(mes_nome) ==
    CASE mes_nome = "janeiro" -> 1
      [] mes_nome = "fevereiro" -> 2
      [] mes_nome = "março" -> 3
      [] mes_nome = "marco" -> 3
      [] mes_nome = "abril" -> 4
      [] mes_nome = "maio" -> 5
      [] mes_nome = "junho" -> 6
      [] mes_nome = "julho" -> 7
      [] mes_nome = "agosto" -> 8
      [] mes_nome = "setembro" -> 9
      [] mes_nome = "outubro" -> 10
      [] mes_nome = "novembro" -> 11
      [] mes_nome = "dezembro" -> 12
      [] OTHER -> 0

IsLeap(ano) == ano % 4 = 0 /\ (ano % 100 /= 0 \/ ano % 400 = 0)

DaysInMonth(ano, mes) ==
    IF mes = 2 THEN (IF IsLeap(ano) THEN 29 ELSE 28)
    ELSE IF mes \in {4, 6, 9, 11} THEN 30 ELSE 31

\* ValidDate as a check of the format alone: any day up to 31 in any month.
ValidDate_format_only(ano, mes, dia) ==
    /\ 1 <= ano /\ ano <= 9999
    /\ 1 <= mes /\ mes <= 12
    /\ 1 <= dia /\ dia <= 31

\* datetime.date(ano, mes, dia) does not raise ValueError.
ValidDate(ano, mes, dia) ==
    /\ 1 <= ano /\ ano <= 9999
    /\ 1 <= mes /\ mes <= 12
    /\ 1 <= dia /\ dia <= DaysInMonth(ano, mes)

\* %d and %m of strftime: two digits.
Pad2(n) == IF n < 10 THEN "0" \o ToStr(n) ELSE ToStr(n)

\* %Y of strftime: the C library prints a year below 1000 with its leading
\* zeros (pad_year) or without them (glibc); both builds exist.
FormatYear(ano, pad_year) ==
    IF pad_year THEN Cat(LAMBDA k : "0", 1, 4 - Len(ToStr(ano))) \o ToStr(ano) ELSE ToStr(ano)

\* strftime with day and month in the American order, "%m/%d/%Y".
strftime_month_first(ano, mes, dia, pad_year) ==
    Pad2(mes) \o "/" \o Pad2(dia) \o "/" \o FormatYear(ano, pad_year)

\* datetime.date(ano, mes, dia).strftime("%d/%m/%Y")
strftime(ano, mes, dia, pad_year) ==
    Pad2(dia) \o "/" \o Pad2(mes) \o "/" \o FormatYear(ano, pad_year)

\* [a-zçãéíóú] under re.IGNORECASE
MonthChars == Chars(ASCII_LOWER) \cup Chars(ASCII_UPPER) \cup Chars("çãéíóúÇÃÉÍÓÚ")

IsMonthChar(c) == c \in MonthChars

\* (\d{1,2})\s+de\s+([a-zçãéíóú]+)\s+de\s+(\d{4}) at position i: the positions
\* of the pieces.  Every repetition is greedy, and none can give a character
\* back: the character after each run is not one the run accepts.
TextoAt(s, i) ==
    LET Spaces(p) == p + RunLen(s, p, IsSpace, Len(s))
    IN  With(RunLen(s, i, IsDigit, 2), LAMBDA dl :
        With(Spaces(i + dl), LAMBDA de1 :
        With(Spaces(de1 + 2), LAMBDA mo :
        With(mo + RunLen(s, mo, IsMonthChar, Len(s)), LAMBDA moEnd :
        With(Spaces(moEnd), LAMBDA de2 :
        With(Spaces(de2 + 2), LAMBDA yr :
            [ok |-> /\ dl >= 1
                    /\ de1 > i + dl /\ MatchCI("DE", s, de1)
                    /\ mo > de1 + 2
                    /\ moEnd > mo
                    /\ de2 > moEnd /\ MatchCI("DE", s, de2)
                    /\ yr > de2 + 2
                    /\ RunLen(s, yr, IsDigit, 4) = 4,
             dia |-> Slice(s, i, i + dl - 1),
             mes_nome |-> Slice(s, mo, moEnd - 1),
             ano |-> Slice(s, yr, yr + 3)]))))))

\* re.search of the textual pattern: start of the leftmost match, or 0.
SearchTexto(s) ==
    LET at == {i \in 1..Len(s) : IsDigit(At(s, i)) /\ TextoAt(s, i).ok}
    IN  IF at = {} THEN 0 ELSE Min(at)

\* [\/\-]
IsDateSep(c) == c \in {"/", "-"}

\* (\d{1,2})[\/\-](\d{1,2})[\/\-](\d{4}) at position i.
NumAt(s, i) ==
    With(RunLen(s, i, IsDigit, 2), LAMBDA dl :
    With(RunLen(s, i + dl + 1, IsDigit, 2), LAMBDA ml :
        LET mo == i + dl + 1
            yr == mo + ml + 1
        IN  [ok |-> /\ dl >= 1
                    /\ i + dl <= Len(s) /\ IsDateSep(At(s, i + dl))
                    /\ ml >= 1
                    /\ mo + ml <= Len(s) /\ IsDateSep(At(s, mo + ml))
                    /\ RunLen(s, yr, IsDigit, 4) = 4,
             dia |-> Slice(s, i, i + dl - 1),
             mes |-> Slice(s, mo, mo + ml - 1),
             ano |-> Slice(s, yr, yr + 3)]))

\* re.search of the numeric pattern: start of the leftmost match, or 0.
SearchNum(s) ==
    LET at == {i \in 1..Len(s) : IsDigit(At(s, i)) /\ NumAt(s, i).ok}
    IN  IF at = {} THEN 0 ELSE Min(at)

\* The numeric branch of extract_data_julgamento.
DataNumerica(s, pad_year) ==
    With(SearchNum(s), LAMBDA m_num :
        IF m_num = 0 THEN None
        ELSE With(NumAt(s, m_num), LAMBDA g :
                 With(<<ToInt(g.ano), ToInt(g.mes), ToInt(g.dia)>>, LAMBDA d :
                     IF ValidDate(d[1], d[2], d[3]) THEN strftime(d[1], d[2], d[3], pad_year)
                     ELSE None)))

extract_data_julgamento(s, pad_year) ==
    With(SearchTexto(s), LAMBDA m_texto :
        IF m_texto = 0 THEN DataNumerica(s, pad_year)
        ELSE With(TextoAt(s, m_texto), LAMBDA g :
                 With(<<ToInt(g.ano), meses(Lower(g.mes_nome)), ToInt(g.dia)>>, LAMBDA d :
                     IF d[2] /= 0 /\ ValidDate(d[1], d[2], d[3])
                       THEN strftime(d[1], d[2], d[3], pad_year)
                     ELSE DataNumerica(s, pad_year))))

(***************************************************************************)
(* Banco detection                                                         *)
(***************************************************************************)
BankNameMin == 2
BankNameMax == 80

\* [A-ZÀ-Ý0-9\.\-\/\s,&] under re.IGNORECASE
IsBankNameChar(c) ==
    c \in UpperSet \/ c \in LowerSet \/ IsDigit(c) \/ IsSpace(c) \/ c \in {".", "-", "/", ",", "&"}

\* \bBANCO\s+([A-ZÀ-Ý0-9\.\-\/\s,&]{2,80}?)\b under re.IGNORECASE at i: the
\* position of the last character of the match, or 0.  \s+ is greedy (the
\* longest run is tried first) and the name is lazy (the shortest that ends
\* at a word boundary).
BancoEndAt(s, i) ==
    IF ~(WordBoundary(s, i) /\ MatchCI("BANCO", s, i)) THEN 0
    ELSE LET Names(w) == {k \in BankNameMin..RunLen(s, i + 5 + w, IsBankNameChar, BankNameMax) :
                            WordBoundary(s, i + 5 + w + k)}
         IN  With({w \in 1..RunLen(s, i + 5, IsSpace, Len(s)) : Names(w) /= {}}, LAMBDA ok :
                 IF ok = {} THEN 0
                 ELSE With(Max(ok), LAMBDA w : i + 5 + w + Min(Names(w)) - 1))

\* re.sub(r'\s{2,}', ' ', s): a run of two or more whitespace characters
\* becomes one space; a single whitespace character stays as it is.
CollapseRuns(s) ==
    With(s, LAMBDA t :
        LET InRun(i) == /\ IsSpace(At(t, i))
                        /\ \/ i > 1 /\ IsSpace(At(t, i - 1))
                           \/ i < Len(t) /\ IsSpace(At(t, i + 1))
            F(i) == IF ~InRun(i) THEN At(t, i)
                    ELSE IF i = 1 \/ ~IsSpace(At(t, i - 1)) THEN " "
                    ELSE ""
        IN  Cat(F, 1, Len(t)))

SAMin == 3
SAMax == 80

\* [A-Z\s\.\-,&] under re.IGNORECASE
IsCompanyChar(c) == IsAsciiLetter(c) \/ IsSpace(c) \/ c \in {".", "-", ",", "&"}

\* ([A-Z][A-Z\s\.\-,&]{3,80}S\.A\.?) under re.IGNORECASE at i: the position of
\* the last character of the match, or 0.  The greedy body ends at the last
\* "S.A" it can reach.
CompanyEndAt(s, i) ==
    IF ~IsAsciiLetter(At(s, i)) THEN 0
    ELSE With({k \in SAMin..RunLen(s, i + 1, IsCompanyChar, SAMax) : MatchCI("S.A", s, i + 1 + k)},
              LAMBDA lens :
                 IF lens = {} THEN 0
                 ELSE With(i + 1 + Max(lens), LAMBDA sa :
                          IF sa + 3 <= Len(s) /\ At(s, sa + 3) = "." THEN sa + 3 ELSE sa + 2))

\* SequenceMatcher.find_longest_match: the longest block a[i..i+k-1] =
\* b[j..j+k-1]; of the longest, the one starting first in a, then first in b.
LongestMatch(a, b) ==
    LET Size(i, j) == Min({k \in 0..Len(a) :
                             \/ i + k > Len(a) \/ j + k > Len(b)
                             \/ At(a, i + k) /= At(b, j + k)})
    IN  With([p \in (1..Len(a)) \X (1..Len(b)) |-> Size(p[1], p[2])], LAMBDA size :
        With(Max({size[p] : p \in DOMAIN size} \cup {0}), LAMBDA best :
            IF best = 0 THEN [i |-> 0, j |-> 0, size |-> 0]
            ELSE With(Min({p[1] : p \in {q \in DOMAIN size : size[q] = best}}), LAMBDA i :
                 With(Min({p[2] : p \in {q \in DOMAIN size : q[1] = i /\ size[q] = best}}), LAMBDA j :
                     [i |-> i, j |-> j, size |-> best]))))

\* The number of matched characters of SequenceMatcher.get_matching_blocks:
\* the longest block, then the same to its left and to its right.
RECURSIVE Matches(_, _)
Matches(a, b) ==
    With(<<a, b>>, LAMBDA ab :
        IF ab[1] = "" \/ ab[2] = "" THEN 0
        ELSE With(LongestMatch(ab[1], ab[2]), LAMBDA m :
                 IF m.size = 0 THEN 0
                 ELSE m.size + Matches(Slice(ab[1], 1, m.i - 1), Slice(ab[2], 1, m.j - 1))
                             + Matches(Slice(ab[1], m.i + m.size, Len(ab[1])),
                                       Slice(ab[2], m.j + m.size, Len(ab[2])))))

\* The order of the characters of the bank names (their code points).
CODE_ORDER == " ABCDEFGHIJKLMNOPQRSTUVWXYZÚ"

Code(c) == CHOOSE k \in 1..Len(CODE_ORDER) : At(CODE_ORDER, k) = c

\* a < b for two bank names, as Python compares strings.
StrLess(a, b) ==
    With({k \in 1..Len(a) : k > Len(b) \/ At(a, k) /= At(b, k)}, LAMBDA diff :
        IF diff = {} THEN Len(a) < Len(b)
        ELSE With(Min(diff), LAMBDA k : k <= Len(b) /\ Code(At(a, k)) < Code(At(b, k))))

\* cutoff=0.7 of get_close_matches, in tenths.
CutoffTenths == 7

\* get_close_matches(word, possibilities, n=1, cutoff=0.7): the possibility of
\* the greatest (ratio, possibility), ratio = 2*M/T, kept when ratio >= cutoff;
\* None when no possibility is kept.
get_close_matches(word, possibilities) ==
    With(word, LAMBDA w :
    With([k \in 1..Len(possibilities) |-> Matches(possibilities[k], w)], LAMBDA M :
        LET T(k) == Len(possibilities[k]) + Len(w)
            Better(k, l) == \/ M[k] * T(l) > M[l] * T(k)
                            \/ M[k] * T(l) = M[l] * T(k) /\ StrLess(possibilities[l], possibilities[k])
        IN  With({k \in 1..Len(possibilities) : 20 * M[k] >= CutoffTenths * T(k)}, LAMBDA kept :
                IF kept = {} THEN None
                ELSE possibilities[CHOOSE k \in kept :
                                     \A l \in kept : possibilities[l] = possibilities[k] \/ Better(k, l)])))

\* str.title(): a letter after a letter is lowered, any other letter is raised.
Title(s) ==
    With(s, LAMBDA t :
        LET IsCased(c) == c \in UpperSet \/ c \in LowerSet
            F(i) == IF i > 1 /\ IsCased(At(t, i - 1)) THEN LowerChar(At(t, i)) ELSE UpperChar(At(t, i))
        IN  Cat(F, 1, Len(t)))

\* The third strategy of detect_bank: a company name ending in S.A.
DetectCompany(s) ==
    With({i \in 1..Len(s) : CompanyEndAt(s, i) /= 0}, LAMBDA at :
        IF at = {} THEN None
        ELSE With(normalize_text(SubSeq(s, Min(at), CompanyEndAt(s, Min(at)))), LAMBDA cand :
             With([k \in 1..Len(COMMON_BANKS) |-> Upper(COMMON_BANKS[k])], LAMBDA names :
             With(get_close_matches(Upper(cand), names), LAMBDA matches :
                 IF matches /= None THEN Title(matches) ELSE cand))))

\* The second strategy of detect_bank: the text after the word BANCO.
DetectBanco(s) ==
    With({i \in 1..Len(s) : BancoEndAt(s, i) /= 0}, LAMBDA at :
        IF at = {} THEN DetectCompany(s)
        ELSE normalize_text(CollapseRuns(Strip(SubSeq(s, Min(at), BancoEndAt(s, Min(at)))))))

\* for b in COMMON_BANKS: if b.upper() in txt_n: return b
KnownBank(txt_n) ==
    With(txt_n, LAMBDA t :
    With({k \in 1..Len(COMMON_BANKS) : Contains(Upper(COMMON_BANKS[k]), t)}, LAMBDA hits :
        IF hits = {} THEN None ELSE COMMON_BANKS[Min(hits)]))

detect_bank(s) ==
    With(KnownBank(normalize_upper(s)), LAMBDA known :
        IF known /= None THEN known ELSE DetectBanco(s))

(***************************************************************************)
(* Texto do voto & dispositivo                                             *)
(***************************************************************************)
DispositivoWindow == 2000
DispositivoTail == 1200

\* re.search(r'\bWORD\b(.{0,2000})', txt, IGNORECASE | DOTALL): group 0 of
\* the leftmost match, or None.
KeywordWindow(word, s) ==
    With({i \in 1..Len(s) : MatchWordCI(word, s, i)}, LAMBDA at :
        IF at = {} THEN None
        ELSE Slice(s, Min(at), Min(at) + Len(word) + DispositivoWindow - 1))

extract_dispositivo(s) ==
    With(KeywordWindow("ACORDAM", s), LAMBDA m :
        IF m /= None THEN Strip(m)
        ELSE With(KeywordWindow("DISPOSITIVO", s), LAMBDA m2 :
                 IF m2 /= None THEN Strip(m2)
                 ELSE With(Strip(Slice(s, Len(s) - DispositivoTail + 1, Len(s))), LAMBDA tail :
                          IF tail /= "" THEN tail ELSE None)))

(***************************************************************************)
(* Inferir decisao p/ banco (heuristica)                                   *)
(***************************************************************************)
\* What a call that raises returns in the model.
IndexError == "<IndexError>"

\* The loop over OUTCOME_PATTERNS: the first key one of whose patterns is
\* found in dnorm, or None.
MatchedKey(dnorm) ==
    With(dnorm, LAMBDA d :
    With({k \in 1..Len(OUTCOME_PATTERNS) :
            \E n \in 1..Len(OUTCOME_PATTERNS[k].pats) :
               \E lit \in OUTCOME_PATTERNS[k].pats[n] : Contains(lit, d)}, LAMBDA hits :
        IF hits = {} THEN None ELSE OUTCOME_PATTERNS[Min(hits)].key))

\* The roles appended to bank_roles: a name of the role holds the first
\* token of the bank name or the whole bank name (accents and case apart).
BankRoles(partes_, banco_name_) ==
    With(normalize_upper(Split(banco_name_)[1]), LAMBDA bn_token :
    With(normalize_upper(banco_name_), LAMBDA bn_upper :
        LET Holds(nm) == With(normalize_upper(Strip(nm)), LAMBDA nm_upper :
                             Contains(bn_token, nm_upper) \/ Contains(bn_upper, nm_upper))
        IN  {role \in DOMAIN partes_ :
                /\ partes_[role] /= None /\ partes_[role] /= ""
                /\ With(Pieces(partes_[role], {";"}), LAMBDA names :
                       \E n \in 1..Len(names) : Holds(names[n]))}))

APPELLANT_ROLES == {"AGRAVANTE", "RECORRENTE", "EMBARGANTE"}
APPELLEE_ROLES == {"AGRAVADO", "RECORRIDO", "EMBARGADO"}
NEGATIVE_KEYS == {"negar_provimento", "julgar_improcedente", "prejudicado", "extinto"}
POSITIVE_KEYS == {"dar_provimento", "julgar_procedente"}

\* Polarity with the positive kinds labelled as the negative ones.
Polarity_not_swapped(matched_key, bank_roles) ==
    IF matched_key \in NEGATIVE_KEYS \cup POSITIVE_KEYS
      THEN (IF bank_roles \cap APPELLANT_ROLES /= {} THEN "contraria"
            ELSE IF bank_roles \cap APPELLEE_ROLES /= {} THEN "favoravel"
            ELSE "indeterminado")
    ELSE None

\* The heuristic that combines matched_key and the roles of the bank; None
\* when no key matched.
Polarity(matched_key, bank_roles) ==
    IF matched_key \in NEGATIVE_KEYS
      THEN (IF bank_roles \cap APPELLANT_ROLES /= {} THEN "contraria"
            ELSE IF bank_roles \cap APPELLEE_ROLES /= {} THEN "favoravel"
            ELSE "indeterminado")
    ELSE IF matched_key \in POSITIVE_KEYS
      THEN (IF bank_roles \cap APPELLANT_ROLES /= {} THEN "favoravel"
            ELSE IF bank_roles \cap APPELLEE_ROLES /= {} THEN "contraria"
            ELSE "indeterminado")
    ELSE None

\* re.search(first + '.*' + second, dnorm): second occurs after an occurrence of first.
Then(first, second, dnorm) ==
    With(Find(first, dnorm, 1), LAMBDA at :
        at /= 0 /\ Find(second, dnorm, at + Len(first)) /= 0)

\* The fallback on the text of the clause when no key matched.
Fallback(dnorm, banco_name_) ==
    IF banco_name_ = None \/ banco_name_ = "" THEN "indeterminado"
    ELSE With(normalize_upper(Split(banco_name_)[1]), LAMBDA bn_simple :
         With(Find("PROVIMENTO", dnorm, Find("NEGA", dnorm, 1) + 4), LAMBDA prov :
             IF /\ Then("NEGA", "PROVIMENTO", dnorm)
                /\ Find(bn_simple, dnorm, prov + 10) /= 0 THEN "contraria"
             ELSE IF Then("DAR PROVIMENTO", bn_simple, dnorm) THEN "favoravel"
             ELSE "indeterminado"))

\* banco_name.split()[0] raises IndexError for a name of whitespace only; it
\* is evaluated for the roles when partes is not empty, and for the fallback.
infer_decision_for_bank(dispositivo_, partes_, banco_name_) ==
    IF dispositivo_ = None \/ dispositivo_ = "" THEN None
    ELSE With(normalize_upper(dispositivo_), LAMBDA dnorm :
         With(MatchedKey(dnorm), LAMBDA matched_key :
             LET named == banco_name_ /= None /\ banco_name_ /= ""
                 no_token == named /\ Split(banco_name_) = <<>>
             IN  IF no_token /\ (DOMAIN partes_ /= {} \/ matched_key = None) THEN IndexError
                 ELSE IF matched_key /= None
                   THEN Polarity(matched_key,
                                 IF named /\ DOMAIN partes_ /= {}
                                   THEN BankRoles(partes_, banco_name_) ELSE {})
                 ELSE Fallback(dnorm, banco_name_)))

(***************************************************************************)
(* Funcao principal                                                        *)
(***************************************************************************)
RESULT_ROLES ==
    << "AGRAVANTE", "AGRAVADO", "RECORRENTE", "RECORRIDO", "EMBARGANTE",
       "EMBARGADO", "AUTOR", "REU", "INTERESSADO" >>

\* The keys the result is initialised with.
RESULT_KEYS ==
    {"processo", "tipo_processo", "data_julgamento", "estado", "banco", "decisao_para_banco"}
        \cup {RESULT_ROLES[k] : k \in 1..Len(RESULT_ROLES)}

\* d[key] = value when value is truthy (every assignment of the function but
\* the last is guarded by `if value:`); the key is added when d lacks it.
Store(d, key, value) ==
    With(value, LAMBDA v :
        IF v = None \/ v = "" THEN d
        ELSE [k \in DOMAIN d \cup {key} |-> IF k = key THEN v ELSE d[k]])

\* for role in [...]: if role in partes_flat: result[role] = partes_flat[role]
RECURSIVE StoreRoles(_, _, _)
StoreRoles(d, partes_flat, k) ==
    IF k > Len(RESULT_ROLES) THEN d
    ELSE With(IF RESULT_ROLES[k] \in DOMAIN partes_flat
                THEN [x \in DOMAIN d \cup {RESULT_ROLES[k]} |->
                        IF x = RESULT_ROLES[k] THEN partes_flat[x] ELSE d[x]]
              ELSE d,
              LAMBDA d2 : StoreRoles(d2, partes_flat, k + 1))

\* {k: v for k, v in result.items() if k in ROLE_LABELS}
RolesOf(result) ==
    [k \in DOMAIN result \cap {ROLE_LABELS[n] : n \in 1..Len(ROLE_LABELS)} |-> result[k]]

\* DefaultResult with the decision preset to indeterminado.
DefaultResult_decided ==
    [k \in RESULT_KEYS |-> IF k = "decisao_para_banco" THEN "indeterminado" ELSE None]

\* result = {...}: every key of the record, each None.
DefaultResult == [k \in RESULT_KEYS |-> None]

\* The record after the extractors up to detect_bank have stored what they found.
ExtractFields(t, pad_year) ==
    With(extract_processo_and_estado(t), LAMBDA pe :
    With(Store(DefaultResult, "processo", pe[1]), LAMBDA r0 :
    With(Store(r0, "estado", pe[2]), LAMBDA r1 :
    With(Store(r1, "tipo_processo", extract_tipo_processo(t)), LAMBDA r2 :
    With(Store(r2, "data_julgamento", extract_data_julgamento(t, pad_year)), LAMBDA r3 :
    With(extract_partes_block(t), LAMBDA block_ :
    With(extract_partes_from_block(block_), LAMBDA partes_flat :
    With(StoreRoles(r3, partes_flat, 1), LAMBDA r4 :
        Store(r4, "banco", detect_bank(t))))))))))

\* StoreDecision with the commented-out assignment of the operative clause
\* restored: the clause is stored under its own key.
StoreDecision_with_dispositivo(result, dispositivo_, banco) ==
    With(infer_decision_for_bank(dispositivo_, RolesOf(result), banco), LAMBDA decisao :
        [k \in DOMAIN result \cup {"dispositivo", "decisao_para_banco"} |->
            IF k = "decisao_para_banco" THEN decisao
            ELSE IF k = "dispositivo" THEN dispositivo_ ELSE result[k]])

\* The end of the function: the operative clause is extracted and not stored
\* (its assignment is commented out), then the decision is stored; an
\* exception of the classifier leaves the function, which returns no record.
StoreDecision(result, dispositivo_, banco) ==
    With(RolesOf(result), LAMBDA roles :
    With(infer_decision_for_bank(dispositivo_, roles, banco), LAMBDA decisao :
        IF decisao = IndexError THEN [raised |-> IndexError]
        ELSE [k \in DOMAIN result \cup {"decisao_para_banco"} |->
                IF k = "decisao_para_banco" THEN decisao ELSE result[k]]))

\* not text or not text.strip()
IsBlank(t) == t = None \/ t = "" \/ Strip(t) = ""

extract_acordao_data(t, pad_year) ==
    IF IsBlank(t) THEN DefaultResult
    ELSE With(ExtractFields(t, pad_year), LAMBDA result :
         With(detect_bank(t), LAMBDA banco :
         With(extract_dispositivo(t), LAMBDA dispositivo_ :
             StoreDecision(result, dispositivo_, banco))))

(***************************************************************************)
(* Inputs                                                                  *)
(***************************************************************************)
\* The texts made of 1..max parts joined by sep.
Texts(parts, max, sep) ==
    {Join(seq, sep) : seq \in UNION {[1..n -> parts] : n \in 1..max}}

MaxDateParts == 3

\* Pieces of text around a judgment date: textual dates (valid, impossible,
\* unknown month), numeric dates (valid, impossible, other separators, a year
\* below 1000) and digits that are no date.
DateParts ==
    { "5 de MARÇO de 2023", "31 de abril de 2023", "1 de foo de 2023",
      "29/02/2024", "31/02/2023", "1-2-2020", "07/09/0999", "12" }

DateTexts == Texts(DateParts, MaxDateParts, " ") \cup Texts(DateParts, MaxDateParts, "")

MaxBlockParts == 3

\* A run of text three characters short of the 1500 the block is cut at.
Padding == Cat(LAMBDA k : IF k % 7 = 0 THEN " " ELSE "a", 1, BlockLimit - 3)

\* Pieces of a document around the markers of the party block: the report
\* marker in both spellings, the vote marker as a word and inside a word.
BlockParts ==
    { "RELATÓRIO", "relatorio", "VOTO", "Votos", "devoto", "AGRAVANTE: Banco", Padding }

BlockTexts == Texts(BlockParts, MaxBlockParts, " ")

MaxLines == 3

\* Lines of a party block: role-labelled entries (one repeated with other
\* spacing), a wrapped name, a blank line, a label that is no role.
BlockLines ==
    { "AGRAVANTE: Banco XYZ S.A.", "AGRAVANTE :  Banco  XYZ S.A.", "AGRAVADO: Fulano de Tal",
      "RÉU - José", "OUTRO: x", "Continuação do nome", "  e  outros ", "" }

Blocks == Texts(BlockLines, MaxLines, "\n")

MaxBankParts == 3

\* Pieces of text around a bank name: names of the list with and without
\* accent, a name after the word "banco", company names close to and far
\* from the list, and text that names no bank.
BankParts ==
    { "o banco", "ITAÚ UNIBANCO S.A.", "Itau Unibanco", "BRADESCO", "Santandre S.A.",
      "Empresa XYZ S.A.", "contra", "" }

BankTexts == Texts(BankParts, MaxBankParts, " ")

MaxParties == 2

\* Operative clauses: one per outcome kind, one that only the fallback
\* reads, one that decides nothing, and the empty and the absent clause.
Clauses ==
    { "NEGAM PROVIMENTO ao recurso", "acordam em dar provimento", "pedido julgado improcedente",
      "julgar  PROCEDENTE a ação", "recurso prejudicado", "processo extinto",
      "nega-se o provimento ao Banco", "por unanimidade", "", None }

\* Flattened values of a role: one name, and two names joined by "; ".
PartyNames == { "Banco Itaú Unibanco", "Fulano de Tal; BANCO DO BRASIL S.A." }

\* The flattened parties: no party, or a name for each of at most
\* MaxParties roles.
Parties ==
    LET roles == {RESULT_ROLES[k] : k \in 1..Len(RESULT_ROLES)}
    IN  {<<>>} \cup UNION {[D -> PartyNames] :
                            D \in {R \in SUBSET roles : Cardinality(R) \in 1..MaxParties}}

BankNames == { None, "Banco Itaú Unibanco", "ITAU" }

MaxSections == 2

\* Sections of a ruling: header, markers, party lines (a known role, the
\* accented RÉU, a label that is no role), date, bank and operative clause.
Sections ==
    { "AGRAVO EM RECURSO ESPECIAL Nº 1234567 - SP", "RELATÓRIO",
      "AGRAVANTE: Banco Itaú Unibanco S.A.", "RÉU - José", "TERCEIRO: Beltrano", "VOTO",
      "Brasília, 5 de março de 2023", "ACORDAM os Ministros em negar provimento ao recurso" }

\* The inputs of the assembler: no text, blank texts, and documents.
Documents == {None, "", " ", " \n\t"} \cup Texts(Sections, MaxSections, "\n")

(***************************************************************************)
(* Specifications: one call of a function on an input of its domain        *)
(***************************************************************************)
\* The variables a specification does not use.
Unused(v) == v = None

\* The state before a call of extract_acordao_data: its locals are unassigned.
Init ==
    /\ pc = "call" /\ text \in Documents /\ ret = None
    /\ Unused(txt) /\ Unused(block) /\ Unused(dispositivo) /\ Unused(partes) /\ Unused(banco_name)

\* One call of extract_acordao_data: the default record is returned at once
\* for a blank text; otherwise the locals take what the extractors return.
CallAcordaoData ==
    /\ pc = "call"
    /\ \E pad_year \in BOOLEAN :
          /\ ret' = extract_acordao_data(text, pad_year)
          /\ IF IsBlank(text)
               THEN UNCHANGED <<txt, block, dispositivo, partes, banco_name>>
             ELSE /\ txt' = text
                  /\ block' = extract_partes_block(text)
                  /\ banco_name' = detect_bank(text)
                  /\ dispositivo' = extract_dispositivo(text)
                  /\ partes' = RolesOf(ExtractFields(text, pad_year))
    /\ pc' = "return"
    /\ UNCHANGED text

Next == CallAcordaoData

Spec == Init /\ [][Next]_vars

InitData ==
    /\ pc = "call" /\ txt \in DateTexts /\ ret = None
    /\ Unused(text) /\ Unused(block) /\ Unused(dispositivo) /\ Unused(partes) /\ Unused(banco_name)

CallDataJulgamento ==
    /\ pc = "call"
    /\ \E pad_year \in BOOLEAN : ret' = extract_data_julgamento(txt, pad_year)
    /\ pc' = "return"
    /\ UNCHANGED <<text, txt, block, dispositivo, partes, banco_name>>

NextData == CallDataJulgamento

SpecData == InitData /\ [][NextData]_vars

InitBlock ==
    /\ pc = "call" /\ txt \in BlockTexts /\ ret = None
    /\ Unused(text) /\ Unused(block) /\ Unused(dispositivo) /\ Unused(partes) /\ Unused(banco_name)

CallPartesBlock ==
    /\ pc = "call"
    /\ ret' = extract_partes_block(txt)
    /\ pc' = "return"
    /\ UNCHANGED <<text, txt, block, dispositivo, partes, banco_name>>

NextBlock == CallPartesBlock

SpecBlock == InitBlock /\ [][NextBlock]_vars

InitPartes ==
    /\ pc = "call" /\ block \in Blocks /\ ret = None
    /\ Unused(text) /\ Unused(txt) /\ Unused(dispositivo) /\ Unused(partes) /\ Unused(banco_name)

CallPartesFromBlock ==
    /\ pc = "call"
    /\ ret' = extract_partes_from_block(block)
    /\ pc' = "return"
    /\ UNCHANGED <<text, txt, block, dispositivo, partes, banco_name>>

NextPartes == CallPartesFromBlock

SpecPartes == InitPartes /\ [][NextPartes]_vars

InitBank ==
    /\ pc = "call" /\ txt \in BankTexts /\ ret = None
    /\ Unused(text) /\ Unused(block) /\ Unused(dispositivo) /\ Unused(partes) /\ Unused(banco_name)

CallDetectBank ==
    /\ pc = "call"
    /\ ret' = detect_bank(txt)
    /\ pc' = "return"
    /\ UNCHANGED <<text, txt, block, dispositivo, partes, banco_name>>

NextBank == CallDetectBank

SpecBank == InitBank /\ [][NextBank]_vars

InitDecisao ==
    /\ pc = "call" /\ dispositivo \in Clauses /\ partes \in Parties /\ banco_name \in BankNames
    /\ ret = None
    /\ Unused(text) /\ Unused(txt) /\ Unused(block)

CallInferDecision ==
    /\ pc = "call"
    /\ ret' = infer_decision_for_bank(dispositivo, partes, banco_name)
    /\ pc' = "return"
    /\ UNCHANGED <<text, txt, block, dispositivo, partes, banco_name>>

NextDecisao == CallInferDecision

SpecDecisao == InitDecisao /\ [][NextDecisao]_vars

(***************************************************************************)
(* Properties                                                              *)
(***************************************************************************)
MONTH_DAYS == <<31, 28, 31, 30, 31, 30, 31, 31, 30, 31, 30, 31>>

\* dia/mes/ano is a day of the calendar.
RealDate(ano, mes, dia) ==
    /\ ano >= 1 /\ mes \in 1..12 /\ dia >= 1
    /\ dia <= MONTH_DAYS[mes]
              + (IF mes = 2 /\ ano % 4 = 0 /\ (ano % 100 /= 0 \/ ano % 400 = 0) THEN 1 ELSE 0)

\* s is written DD/MM/Y..Y and reads as the given day, month and year.
Reads(s, ano, mes, dia) ==
    /\ s /= None /\ Len(s) >= 7 /\ At(s, 3) = "/" /\ At(s, 6) = "/"
    /\ \A k \in (1..Len(s)) \ {3, 6} : IsDigit(At(s, k))
    /\ ToInt(SubSeq(s, 1, 2)) = dia /\ ToInt(SubSeq(s, 4, 5)) = mes
    /\ ToInt(SubSeq(s, 7, Len(s))) = ano

\* The leftmost textual match of txt is a real date.
TextoValid ==
    /\ SearchTexto(txt) /= 0
    /\ LET g == TextoAt(txt, SearchTexto(txt))
       IN  meses(Lower(g.mes_nome)) /= 0
           /\ RealDate(ToInt(g.ano), meses(Lower(g.mes_nome)), ToInt(g.dia))

\* The leftmost numeric match of txt is a real date.
NumValid ==
    /\ SearchNum(txt) /= 0
    /\ LET g == NumAt(txt, SearchNum(txt))
       IN  RealDate(ToInt(g.ano), ToInt(g.mes), ToInt(g.dia))

\* The substrings of s written DD/MM/YYYY that are real dates of the year
\* 1000 or later (%Y prints such a year the same way on every build).
ValidDatesIn(s) ==
    {SubSeq(s, i, i + 9) : i \in {k \in 1..(Len(s) - 9) :
        /\ \A d \in {0, 1, 3, 4, 6, 7, 8, 9} : IsDigit(At(s, k + d))
        /\ At(s, k + 2) = "/" /\ At(s, k + 5) = "/"
        /\ ToInt(SubSeq(s, k + 6, k + 9)) >= 1000
        /\ RealDate(ToInt(SubSeq(s, k + 6, k + 9)), ToInt(SubSeq(s, k + 3, k + 4)),
                    ToInt(SubSeq(s, k, k + 1)))}}

\* C5 as stated: a text that contains a valid date written DD/MM/YYYY,
\* whatever surrounds it, yields exactly that date.  (Stated for a text that
\* holds one such date, of a year the build cannot print differently.)
C5_AnyValidDateIsReturned ==
    pc = "return" /\ Cardinality(ValidDatesIn(txt)) = 1 => ret \in ValidDatesIn(txt)

\* C5 amended: when the leftmost textual match is missing or is no real date,
\* and the leftmost numeric match is a real date written DD/MM/YYYY with a
\* year of 1000 or later, the result is exactly that substring.
C5_FirstNumericDateIsReturned ==
    LET i == SearchNum(txt)
    IN  /\ pc = "return" /\ ~TextoValid /\ NumValid
        /\ Slice(txt, i, i + 9) \in ValidDatesIn(txt)
        => ret = Slice(txt, i, i + 9)

\* The case of C5: a valid DD/MM/YYYY date after other text, after an
\* impossible textual date, has been returned.
C5_Witness ==
    /\ pc = "return" /\ SearchTexto(txt) /= 0 /\ ~TextoValid /\ NumValid
    /\ SearchNum(txt) > 1
    /\ Slice(txt, SearchNum(txt), SearchNum(txt) + 9) \in ValidDatesIn(txt)
    /\ ret = Slice(txt, SearchNum(txt), SearchNum(txt) + 9)

C2_BlankTextGivesAllNone ==
    pc = "return" /\ (text \in {None, ""} \/ \A k \in 1..Len(text) : At(text, k) \in {" ", "\t", "\n"}) =>
        /\ "raised" \notin DOMAIN ret /\ "decisao_para_banco" \in DOMAIN ret
        /\ \A k \in DOMAIN ret : ret[k] = None
        /\ txt = None /\ block = None /\ dispositivo = None /\ partes = None /\ banco_name = None

\* The case of C2: a text of whitespace only has been processed.
C2_Witness ==
    /\ pc = "return" /\ text = " \n\t"
    /\ ret["decisao_para_banco"] = None

\* The outcome kind matched in the clause of the call, None when there is none.
KindMatched ==
    IF dispositivo \in {None, ""} THEN None ELSE MatchedKey(normalize_upper(dispositivo))

\* The roles the bank of the call occupies.
RolesOfBank ==
    IF banco_name \in {None, ""} \/ DOMAIN partes = {} THEN {} ELSE BankRoles(partes, banco_name)

AsAppellant == RolesOfBank \cap {"AGRAVANTE", "RECORRENTE", "EMBARGANTE"} /= {}
AsAppellee == RolesOfBank \cap {"AGRAVADO", "RECORRIDO", "EMBARGADO"} /= {}

\* C3: when an outcome kind is matched, a negative kind yields contraria if
\* the bank is AGRAVANTE, RECORRENTE or EMBARGANTE, else favoravel if it is
\* AGRAVADO, RECORRIDO or EMBARGADO, else indeterminado; a positive kind
\* yields the same with the two labels swapped.  NEGAM PROVIMENTO with the
\* bank as RECORRENTE yields contraria.
C3_PolarityOfOutcome ==
    pc = "return" /\ KindMatched /= None =>
        /\ KindMatched \in {"negar_provimento", "julgar_improcedente", "prejudicado", "extinto"} =>
              ret = IF AsAppellant THEN "contraria"
                    ELSE IF AsAppellee THEN "favoravel" ELSE "indeterminado"
        /\ KindMatched \in {"dar_provimento", "julgar_procedente"} =>
              ret = IF AsAppellant THEN "favoravel"
                    ELSE IF AsAppellee THEN "contraria" ELSE "indeterminado"
        /\ ret \in {"contraria", "favoravel", "indeterminado"}
        /\ (/\ Contains("NEGAM PROVIMENTO", dispositivo)
            /\ partes = [RECORRENTE |-> "Banco Itaú Unibanco"]
            /\ banco_name = "Banco Itaú Unibanco") => ret = "contraria"

\* The case of C3: NEGAM PROVIMENTO has been classified for a bank that is
\* RECORRENTE.
C3_Witness ==
    /\ pc = "return" /\ KindMatched = "negar_provimento"
    /\ partes = [RECORRENTE |-> "Banco Itaú Unibanco"] /\ banco_name = "Banco Itaú Unibanco"
    /\ RolesOfBank = {"RECORRENTE"} /\ ret = "contraria"

\* C10: when an outcome kind is matched and the bank is found both under
\* AGRAVANTE, RECORRENTE or EMBARGANTE and under AGRAVADO, RECORRIDO or
\* EMBARGADO, the result is indeterminado.
C10_AmbiguousIsIndeterminado ==
    pc = "return" /\ KindMatched /= None /\ AsAppellant /\ AsAppellee => ret = "indeterminado"

\* C4: on a text that contains the accented name "ITAÚ UNIBANCO", detect_bank
\* returns the list entry "ITAÚ UNIBANCO".
C4_AccentedEntryReturned ==
    pc = "return" /\ Contains("ITAÚ UNIBANCO", txt) => ret = "ITAÚ UNIBANCO"

\* The role of the i-th line of the block when it is a role-labelled line.
RoleOfLine(lines, i) ==
    LET m == MatchLabelLine(Strip(lines[i]))
    IN  IF m.ok THEN MatchedRole(normalize_upper(Strip(m.label))) ELSE None

\* The indexes of the role-labelled lines: each starts an entry.
Entries(lines) == {i \in 1..Len(lines) : RoleOfLine(lines, i) /= None}

\* The lines after line i that belong to its entry: those before the first
\* blank or label-looking line.
Wrapped(lines, i) ==
    {k \in (i + 1)..Len(lines) :
        \A l \in (i + 1)..k : Strip(lines[l]) /= "" /\ ~LooksLikeLabel(Strip(lines[l]))}

\* The name of the entry at line i, character for character: the rest of the
\* labelled line and each wrapped line, joined by single spaces.
RawName(lines, i) ==
    LET F(k) == IF k = i THEN Strip(MatchLabelLine(Strip(lines[i])).name)
                ELSE " " \o Strip(lines[k])
    IN  Cat(F, i, Max({i} \cup Wrapped(lines, i)))

\* The names of a flattened value, cut at "; ".
NamesOf(value) ==
    LET p == Pieces(value, {";"})
    IN  [k \in 1..Len(p) |-> IF k = 1 THEN p[k] ELSE Slice(p[k], 2, Len(p[k]))]

Range(seq) == {seq[k] : k \in 1..Len(seq)}

\* The block of the example of C7.
ExampleBlock == "AGRAVANTE: Banco XYZ S.A.\nContinuação do nome\nAGRAVADO: Fulano de Tal"

\* C7 as stated: the name of an entry is the rest of its labelled line and the
\* wrapped lines after it, joined by single spaces, their characters
\* unchanged; for the example, "Banco XYZ S.A. Continuação do nome".
C7_NameUnchanged ==
    pc = "return" =>
        LET lines == SplitLines(block)
        IN  /\ \A i \in Entries(lines) :
                  /\ RoleOfLine(lines, i) \in DOMAIN ret
                  /\ RawName(lines, i) \in Range(NamesOf(ret[RoleOfLine(lines, i)]))
            /\ block = ExampleBlock =>
                  ret = [AGRAVANTE |-> "Banco XYZ S.A. Continuação do nome",
                         AGRAVADO |-> "Fulano de Tal"]

\* C7 amended: the name of an entry is the rest of its labelled line and the
\* wrapped lines after it, joined by single spaces, then with its accents
\* removed and its runs of whitespace collapsed; a blank or label-looking
\* line ends the entry and is parsed on its own.  For the example the names
\* are "Banco XYZ S.A. Continuacao do nome" and "Fulano de Tal".
C7_NameNormalized ==
    pc = "return" =>
        LET lines == SplitLines(block)
        IN  /\ \A i \in Entries(lines) :
                  /\ RoleOfLine(lines, i) \in DOMAIN ret
                  /\ normalize_text(RawName(lines, i)) \in Range(NamesOf(ret[RoleOfLine(lines, i)]))
            /\ \A role \in DOMAIN ret : \A name \in Range(NamesOf(ret[role])) :
                  \E i \in Entries(lines) :
                      RoleOfLine(lines, i) = role /\ name = normalize_text(RawName(lines, i))
            /\ block = ExampleBlock =>
                  ret = [AGRAVANTE |-> "Banco XYZ S.A. Continuacao do nome",
                         AGRAVADO |-> "Fulano de Tal"]

\* The case of C7: the example block has been parsed, its wrapped line absorbed.
C7_Witness ==
    /\ pc = "return" /\ block = ExampleBlock
    /\ Wrapped(SplitLines(block), 1) = {2}
    /\ "AGRAVANTE" \in DOMAIN ret /\ "AGRAVADO" \in DOMAIN ret

\* The names captured for a role, in the order of the lines.
Captured(lines, role) ==
    LET at == SortedSeq({i \in Entries(lines) : RoleOfLine(lines, i) = role})
    IN  [k \in 1..Len(at) |-> Join(Split(normalize_text(RawName(lines, at[k]))), " ")]

\* The elements of seq without their repetitions, first occurrence first.
FirstOccurrences(seq) ==
    LET first == SortedSeq({k \in 1..Len(seq) : \A l \in 1..(k - 1) : seq[l] /= seq[k]})
    IN  [k \in 1..Len(first) |-> seq[first[k]]]

\* C8: the flattened value of a role lists each distinct captured name once,
\* in the order of first occurrence, joined by "; "; a role with no captured
\* name is no key of the mapping.
C8_NamesOnceInOrder ==
    pc = "return" =>
        LET lines == SplitLines(block)
            roles == {RoleOfLine(lines, i) : i \in Entries(lines)}
        IN  /\ DOMAIN ret = roles
            /\ \A role \in roles :
                  ret[role] = Join(FirstOccurrences(Captured(lines, role)), "; ")

\* The case of C8: a name captured twice under one role, on different lines,
\* and listed once.
C8_Witness ==
    /\ pc = "return"
    /\ \E role \in DOMAIN ret :
          LET names == Captured(SplitLines(block), role)
          IN  /\ \E k, l \in 1..Len(names) : k < l /\ names[k] = names[l]
              /\ Len(NamesOf(ret[role])) < Len(names)

\* C9 as stated: between the markers when the report marker precedes the vote
\* marker; before the vote marker when it is the only marker; the first 1500
\* characters in every other case, a report marker after the vote marker
\* included.
C9_BlockAsStated ==
    LET rel == SearchRelatorio(txt)
        voto == SearchVoto(txt)
    IN  pc = "return" =>
            ret = IF rel /= 0 /\ voto /= 0 /\ rel < voto THEN Slice(txt, rel + 9, voto - 1)
                  ELSE IF rel = 0 /\ voto /= 0 THEN Slice(txt, 1, voto - 1)
                  ELSE Slice(txt, 1, 1500)

\* C9 amended: between the markers when the report marker precedes the vote
\* marker; otherwise everything before the vote marker whenever there is one
\* (also when a report marker follows it); the first 1500 characters only
\* when there is no vote marker.
C9_BlockChoice ==
    LET rel == SearchRelatorio(txt)
        voto == SearchVoto(txt)
    IN  pc = "return" =>
            ret = IF rel /= 0 /\ voto /= 0 /\ rel < voto THEN Slice(txt, rel + 9, voto - 1)
                  ELSE IF voto /= 0 THEN Slice(txt, 1, voto - 1)
                  ELSE Slice(txt, 1, 1500)

\* The case of C9: both markers, the report marker after the vote marker, and
\* the block is the text before the vote marker.
C9_Witness ==
    /\ pc = "return"
    /\ SearchVoto(txt) > 1 /\ SearchRelatorio(txt) > SearchVoto(txt)
    /\ ret = Slice(txt, 1, SearchVoto(txt) - 1)
    /\ ret /= Slice(txt, 1, 1500)

\* C6: the result is never an impossible date: a real textual date wins over
\* any numeric date; a textual match that is no real date (or names no
\* month) leaves the decision to the leftmost numeric match; that match is
\* the result when it is a real date, and the result is absent otherwise.
C6_NeverAnImpossibleDate ==
    pc = "return" =>
        LET t == TextoAt(txt, SearchTexto(txt))
            n == NumAt(txt, SearchNum(txt))
        IN  /\ ret /= None =>
                  /\ Len(ret) >= 7
                  /\ RealDate(ToInt(SubSeq(ret, 7, Len(ret))), ToInt(SubSeq(ret, 4, 5)),
                              ToInt(SubSeq(ret, 1, 2)))
            /\ TextoValid => Reads(ret, ToInt(t.ano), meses(Lower(t.mes_nome)), ToInt(t.dia))
            /\ ~TextoValid /\ NumValid => Reads(ret, ToInt(n.ano), ToInt(n.mes), ToInt(n.dia))
            /\ ~TextoValid /\ ~NumValid => ret = None

\* The case of C6: the only date-like text is an impossible numeric date
\* after an impossible textual one, and the result is absent.
C6_Witness ==
    /\ pc = "return" /\ SearchTexto(txt) /= 0 /\ ~TextoValid
    /\ SearchNum(txt) /= 0 /\ ~NumValid
    /\ ret = None

====
